---- MODULE Spec2Model ----
(***************************************************************************)
(* Model of the Firefox inference client (src/src/firefox_inference and     *)
(* the older standalone src/script.py) and of the programs that drive it   *)
(* (script.py main, examples/*.py).                                        *)
(*                                                                         *)
(* Python values are tagged records; a Python string is a sequence of      *)
(* text fragments, so that formatting, concatenation and "contains" are    *)
(* computed rather than assumed.                                           *)
(***************************************************************************)
EXTENDS Integers, Sequences, FiniteSets, TLC

\* ------------------------------------------------------------------ bounds
\* Number of wrapper calls the library caller makes before it quits.
MaxCalls == 1
\* Number of non-terminating lines read by the interactive translator.
MaxInputs == 2

\* ------------------------------------------------------- Python values
NoneV == [t |-> "none"]
StrV(s) == [t |-> "str", s |-> s]
BoolV(b) == [t |-> "bool", b |-> b]
DictV(f) == [t |-> "dict", d |-> f]
ListV(l) == [t |-> "list", l |-> l]
IntV(n) == [t |-> "int", n |-> n]
EmptyDict == DictV(<<>>)

\* Python truthiness (bool(v)).
Truthy(v) ==
  CASE v.t = "none" -> FALSE
    [] v.t = "str" -> v.s # <<>>
    [] v.t = "bool" -> v.b
    [] v.t = "dict" -> DOMAIN v.d # {}
    [] v.t = "list" -> v.l # <<>>
    [] v.t = "int" -> v.n # 0

\* a or b
PyOr(a, b) == IF Truthy(a) THEN a ELSE b

\* dict.get(key): the value, or None when the key is missing.
DictGet(v, k) == IF k \in DOMAIN v.d THEN v.d[k] ELSE NoneV

\* Type name as Python prints it in an AttributeError / TypeError.
TypeName(v) ==
  CASE v.t = "none" -> "NoneType"
    [] v.t = "str" -> "str"
    [] v.t = "bool" -> "bool"
    [] v.t = "dict" -> "dict"
    [] v.t = "list" -> "list"
    [] v.t = "int" -> "int"

RECURSIVE PyRepr(_)
RECURSIVE ReprItems(_, _)
RECURSIVE ReprList(_)
\* "k1: v1, k2: v2" for the keys ks of the mapping f.
ReprItems(f, ks) ==
  IF ks = {} THEN <<>>
  ELSE LET k == CHOOSE x \in ks : TRUE
           rest == ks \ {k}
       IN <<"'", k, "': ">> \o PyRepr(f[k])
          \o (IF rest = {} THEN <<>> ELSE <<", ">> \o ReprItems(f, rest))
ReprList(l) ==
  IF l = <<>> THEN <<>>
  ELSE PyRepr(Head(l))
       \o (IF Tail(l) = <<>> THEN <<>> ELSE <<", ">> \o ReprList(Tail(l)))
\* repr(v)
PyRepr(v) ==
  CASE v.t = "none" -> <<"None">>
    [] v.t = "str" -> <<"'">> \o v.s \o <<"'">>
    [] v.t = "bool" -> IF v.b THEN <<"True">> ELSE <<"False">>
    [] v.t = "dict" -> <<"{">> \o ReprItems(v.d, DOMAIN v.d) \o <<"}">>
    [] v.t = "list" -> <<"[">> \o ReprList(v.l) \o <<"]">>

\* str(v), as an f-string placeholder formats v.
PyStr(v) == IF v.t = "str" THEN v.s ELSE PyRepr(v)

\* s contains sub as a contiguous run of fragments.
Contains(s, sub) ==
  \E i \in 0..(Len(s) - Len(sub)) :
    \A j \in 1..Len(sub) : s[i + j] = sub[j]

\* ------------------------------------------------ outcomes of a call
Return(v) == [kind |-> "return", value |-> v, etype |-> "", text |-> <<>>]
Raise(e, txt) == [kind |-> "raise", value |-> NoneV, etype |-> e, text |-> txt]
NoOutcome == [kind |-> "none", value |-> NoneV, etype |-> "", text |-> <<>>]

\* v.get(...) on a value that is not a mapping.
NoGetAttr(v) ==
  Raise("AttributeError",
        <<"'", TypeName(v), "' object has no attribute 'get'">>)

\* v[key] for a string key.
Subscript(v, k) ==
  CASE v.t = "dict" ->
         IF k \in DOMAIN v.d THEN Return(v.d[k])
         ELSE Raise("KeyError", <<"'", k, "'">>)
    [] v.t = "list" ->
         Raise("TypeError", <<"list indices must be integers or slices">>)
    [] v.t = "str" ->
         Raise("TypeError", <<"string indices must be integers">>)
    [] OTHER ->
         Raise("TypeError",
               <<"'", TypeName(v), "' object is not subscriptable">>)

\* v[0]
First(v) ==
  CASE v.t = "list" ->
         IF v.l # <<>> THEN Return(v.l[1])
         ELSE Raise("IndexError", <<"list index out of range">>)
    [] v.t = "str" ->
         IF v.s # <<>> THEN Return(StrV(<<v.s[1]>>))
         ELSE Raise("IndexError", <<"string index out of range">>)
    [] v.t = "dict" -> Raise("KeyError", <<"0">>)
    [] OTHER ->
         Raise("TypeError",
               <<"'", TypeName(v), "' object is not subscriptable">>)

\* ------------------------------------- _run_page_extractor: unwrapping
Success == StrV(<<"success">>)
Error == StrV(<<"error">>)

\* response and response.get("name")
ResponseName(r) == IF Truthy(r) THEN DictGet(r, "name") ELSE r

\* Faulty variant: a success whose result is falsy is taken for no response.
UnwrapSuccessTruthyOnly(c, r) ==
  IF Subscript(r, "result").kind = "return" /\ Truthy(r.d["result"])
  THEN Return(r.d["result"])
  ELSE Raise("RuntimeError",
             <<c, " failed with no response: ">> \o PyStr(r))
\* return response["result"]
UnwrapSuccess(c, r) == Subscript(r, "result")

\* error_details = response.get("error") or {}
\* message = error_details.get("message") or response.get("error")
\* raise RuntimeError(f"{command} failed: {message}")
UnwrapError(c, r) ==
  LET error_details == PyOr(DictGet(r, "error"), EmptyDict)
  IN IF error_details.t # "dict" THEN NoGetAttr(error_details)
     ELSE LET message == PyOr(DictGet(error_details, "message"),
                              DictGet(r, "error"))
          IN Raise("RuntimeError", <<c, " failed: ">> \o PyStr(message))

\* Faulty variant: an unrecognised response falls off the end of the method.
UnwrapOtherReturnsNone(c, r) == Return(NoneV)
\* raise RuntimeError(f"{command} failed with no response: {response}")
UnwrapOther(c, r) ==
  Raise("RuntimeError", <<c, " failed with no response: ">> \o PyStr(r))

\* The part of _run_page_extractor after the with-block.
Unwrap(c, r) ==
  IF Truthy(r) /\ r.t # "dict" THEN NoGetAttr(r)
  ELSE IF ResponseName(r) = Success THEN UnwrapSuccess(c, r)
  ELSE IF ResponseName(r) = Error THEN UnwrapError(c, r)
  ELSE UnwrapOther(c, r)

\* ------------------------------------------------------- setup_driver
PathV(e) == [t |-> "path", exists |-> e]
\* A Path object defines neither __bool__ nor __len__: it is always true.
Given(bin) == bin.t = "path"

Modules == {"package", "script"}

\* Faulty variant: the binary path is used without the existence test.
BinaryNotChecked(m, bin) == NoOutcome
\* if firefox_bin: raise FileNotFoundError / assert firefox_bin.exists()
BinaryCheck(m, bin) ==
  IF Given(bin) /\ ~bin.exists
  THEN IF m = "package"
       THEN Raise("FileNotFoundError", <<"Firefox binary not found: ">>)
       ELSE Raise("AssertionError", <<"The Firefox binary did not exist: ">>)
  ELSE NoOutcome

All == StrV(<<"All">>)

DefaultPrefs(m) ==
  IF m = "package"
  THEN ("browser.ml.enable" :> BoolV(TRUE))
       @@ ("browser.ml.logLevel" :> All)
       @@ ("browser.translations.enable" :> BoolV(TRUE))
       @@ ("browser.translations.logLevel" :> All)
       @@ ("browser.translations.automaticallyPopup" :> BoolV(FALSE))
  ELSE ("browser.ml.enable" :> BoolV(TRUE))
       @@ ("browser.ml.logLevel" :> All)

\* Faulty variant: the defaults win over the caller's flags.
PrefsKeepDefaults(p, u) == p @@ u
\* prefs.update(ml_prefs)
PrefsUpdate(p, u) == u @@ p

\* prefs = {...}; if ml_prefs: prefs.update(ml_prefs)
MergedPrefs(m, ml_prefs) ==
  IF Truthy(ml_prefs) THEN PrefsUpdate(DefaultPrefs(m), ml_prefs.d)
  ELSE DefaultPrefs(m)

\* options.add_argument(...)
Arguments(headless) ==
  <<"-remote-allow-system-access">>
  \o (IF headless THEN <<"-headless">> ELSE <<>>)

\* ------------------------------------------------ the remote side
\* Handles the remote side hands out for engines and sessions.
Handles == {<<"h1">>, <<"h2">>}
Text == StrV(<<"text">>)
Boom == StrV(<<"boom">>)

PageScoped ==
  {"get_page_text", "get_reader_mode_content", "get_page_info",
   "get_selection_text"}
ProcessScoped ==
  {"get_headless_page_text", "create_ml_engine", "run_ml_engine",
   "destroy_ml_engine", "create_translations_session",
   "run_translations_session", "destroy_translations_session"}
Commands == PageScoped \cup ProcessScoped

\* Results of a command, as the command table lists them, and null.
ResultsOf(c) ==
  {NoneV} \cup
  CASE c \in {"get_page_text", "get_headless_page_text"} ->
         {DictV([text |-> Text, metadata |-> EmptyDict])}
    [] c = "get_reader_mode_content" -> {Text}
    [] c = "get_page_info" -> {DictV([pages |-> Text])}
    [] c = "get_selection_text" -> {Text, StrV(<<>>)}
    [] c = "create_ml_engine" ->
         {DictV([engineId |-> StrV(h)]) : h \in Handles} \cup {EmptyDict}
    [] c = "run_ml_engine" ->
         {DictV([entries |->
                   ListV(<<DictV([summary_text |-> StrV(<<"sum">>)])>>)]),
          DictV([entries |-> ListV(<<>>)])}
    [] c = "create_translations_session" ->
         {DictV([sessionId |-> StrV(h)]) : h \in Handles} \cup {EmptyDict}
    [] c = "run_translations_session" ->
         {DictV([targetText |-> StrV(<<"hola">>)]), Text}
    [] OTHER -> {EmptyDict}

SuccessEnvelopes(c) ==
  {DictV([name |-> Success, result |-> v]) : v \in ResultsOf(c)}

\* error: a string, or a map with a message, or null, or left out.
ErrorEnvelopes ==
  {DictV([name |-> Error, error |-> e]) :
     e \in {Boom, StrV(<<>>), DictV([message |-> Boom]),
            DictV([message |-> StrV(<<>>)]), EmptyDict, NoneV}}
  \cup {DictV([name |-> Error])}

\* No response, or a value with neither tag, or not a mapping at all.
Malformed ==
  {NoneV, EmptyDict, DictV([name |-> StrV(<<"other">>)]),
   DictV([result |-> Text]), DictV([name |-> Success]), Text}

\* What execute_async_script can hand back for command c.
Responses(c) == SuccessEnvelopes(c) \cup ErrorEnvelopes \cup Malformed

\* The script execution itself failed: no response value exists.
ScriptFailed == [t |-> "raised"]
NotRun == [t |-> "notrun"]

\* ------------------------------------------------------------- state
VARIABLES
  prog,         \* which program runs: a main, or a caller of the library
  module,       \* "package" (firefox_inference) or "script" (script.py)
  headless, firefox_bin, ml_prefs,   \* constructor arguments
  pc,           \* position of the program
  status,       \* exception the program is propagating, or NoOutcome
  client,       \* the FirefoxInference object exists
  driver,       \* browser process: "none", "open", "closed"
  options,      \* FirefoxOptions handed to webdriver.Firefox
  context,      \* execution context of the driver
  page,         \* url loaded in the tab
  navlog,       \* urls driver.get was called with
  issued,       \* commands executed through the script payload
  phase,        \* position inside the wrapper call in progress
  cmd, args, url,   \* the wrapper call in progress
  saved,        \* context the with-block restores
  resp,         \* value of execute_async_script
  outcome,      \* result of the last wrapper call
  mark,         \* page, context and log lengths when the call began
  page_text,    \* local of the mains
  handle,       \* engine_id / session_id local of the mains
  inputs,       \* lines read by the interactive translator
  calls         \* wrapper calls made by the library caller

vars ==
  <<prog, module, headless, firefox_bin, ml_prefs, pc, status, client,
    driver, options, context, page, navlog, issued, phase, cmd, args, url,
    saved, resp, outcome, mark, page_text, handle, inputs, calls>>

config == <<prog, module, headless, firefox_bin, ml_prefs>>
session == <<client, driver, options>>
callvars == <<phase, cmd, args, url, saved, resp, outcome, mark>>
browser == <<context, page, navlog, issued>>
locals == <<page_text, handle, inputs, calls>>

Mains == {"script_main", "summarize_article", "translate_article",
          "interactive_translator"}
Examples == Mains \ {"script_main"}
Programs == Mains \cup {"caller"}

NoOptions == [arguments |-> <<>>, binary |-> NoneV, prefs |-> <<>>]

\* Constructor arguments a caller of the library may pass.
CallerPrefs ==
  {NoneV, EmptyDict,
   DictV(("browser.ml.logLevel" :> StrV(<<"Error">>))),
   DictV(("browser.translations.enable" :> BoolV(FALSE))
         @@ ("extensions.custom" :> BoolV(TRUE)))}
CallerBins == {NoneV, PathV(TRUE), PathV(FALSE)}

Init ==
  /\ prog \in Programs
  /\ module \in (IF prog = "caller" THEN Modules
                 ELSE IF prog = "script_main" THEN {"script"}
                 ELSE {"package"})
  \* the mains pass headless and log_firefox only
  /\ headless \in (IF prog \in {"caller", "interactive_translator"}
                   THEN BOOLEAN ELSE {TRUE})
  /\ firefox_bin \in (IF prog = "caller" THEN CallerBins ELSE {NoneV})
  /\ ml_prefs \in (IF prog = "caller" THEN CallerPrefs ELSE {NoneV})
  /\ pc = "start"
  /\ status = NoOutcome
  /\ client = FALSE
  /\ driver = "none"
  /\ options = NoOptions
  /\ context = "content"
  /\ page = "about:blank"
  /\ navlog = <<>>
  /\ issued = <<>>
  /\ phase = "idle"
  /\ cmd = ""
  /\ args = <<>>
  /\ url = ""
  /\ saved = "content"
  /\ resp = NotRun
  /\ outcome = NoOutcome
  /\ mark = [page |-> "about:blank", context |-> "content",
             navs |-> 0, issued |-> 0]
  /\ page_text = NoneV
  /\ handle = NoneV
  /\ inputs = 0
  /\ calls = 0

\* ------------------------------------------- FirefoxInference.__init__
\* setup_driver, webdriver.Firefox(options), then the load of runner.js.
\* The launch and the load are outside this code and may fail.
Construct ==
  /\ pc = "start"
  /\ LET check == BinaryCheck(module, firefox_bin)
     IN IF check.kind = "raise"
        THEN /\ status' = check
             /\ pc' = "exit"
             /\ UNCHANGED session
        ELSE /\ options' = [arguments |-> Arguments(headless),
                            binary |-> firefox_bin,
                            prefs |-> MergedPrefs(module, ml_prefs)]
             /\ \/ /\ driver' = "none"
                   /\ client' = FALSE
                   /\ status' = Raise("WebDriverException", <<"launch">>)
                   /\ pc' = "exit"
                \/ /\ driver' = "open"
                   /\ \/ /\ client' = TRUE
                         /\ status' = NoOutcome
                         /\ pc' = "ready"
                      \/ /\ client' = FALSE
                         /\ status' = Raise("FileNotFoundError",
                                            <<"runner.js">>)
                         /\ pc' = "exit"
  /\ UNCHANGED <<config, browser, callvars, locals>>

\* --------------------------------------------------- a wrapper call
BeginCall(u, c, a, first) ==
  /\ phase' = first
  /\ cmd' = c
  /\ args' = a
  /\ url' = u
  /\ resp' = NotRun
  /\ outcome' = NoOutcome
  /\ mark' = [page |-> page, context |-> context,
              navs |-> Len(navlog), issued |-> Len(issued)]
  /\ UNCHANGED saved

run_page_extractor(c, a) == BeginCall("", c, a, "enter")

\* Faulty variant: the command is issued against whatever page is loaded.
extract_without_navigation(u, c, a) == BeginCall(u, c, a, "enter")
\* self.driver.get(url); time.sleep(1); self._run_page_extractor(...)
extract_after_navigation(u, c, a) == BeginCall(u, c, a, "nav")

get_page_text(u, o) ==
  extract_after_navigation(u, "get_page_text", <<PyOr(o, EmptyDict)>>)
get_reader_mode_content(u, force) ==
  extract_after_navigation(u, "get_reader_mode_content", <<BoolV(force)>>)
get_page_info(u, o) ==
  extract_after_navigation(u, "get_page_info", <<PyOr(o, EmptyDict)>>)
get_selection_text(u) ==
  extract_after_navigation(u, "get_selection_text", <<>>)
get_headless_page_text(u, o) ==
  run_page_extractor("get_headless_page_text",
                     <<StrV(<<u>>), PyOr(o, EmptyDict)>>)
create_ml_engine(o) == run_page_extractor("create_ml_engine", <<o>>)
run_ml_engine(engine_id, a, o) ==
  LET request == IF Truthy(o) THEN DictV([args |-> a, options |-> o])
                 ELSE DictV([args |-> a])
  IN run_page_extractor("run_ml_engine", <<engine_id, request>>)
destroy_ml_engine(engine_id, shutdown) ==
  run_page_extractor("destroy_ml_engine",
                     <<engine_id, DictV([shutdown |-> BoolV(shutdown)])>>)
create_translations_session(language_pair) ==
  run_page_extractor("create_translations_session",
                     <<DictV([languagePair |-> language_pair])>>)
run_translations_session(session_id, text, is_html) ==
  run_page_extractor("run_translations_session",
                     <<session_id,
                       DictV([text |-> text, isHTML |-> BoolV(is_html)])>>)
destroy_translations_session(session_id, discard_translations) ==
  run_page_extractor(
    "destroy_translations_session",
    <<session_id,
      DictV([discardTranslations |-> BoolV(discard_translations)])>>)

\* self.driver.get(url): the load may fail, and then the wrapper raises.
Navigate ==
  /\ phase = "nav"
  /\ navlog' = Append(navlog, url)
  /\ \/ /\ page' = url
        /\ phase' = "enter"
        /\ UNCHANGED outcome
     \/ /\ page' \in {page, "about:neterror"}
        /\ phase' = "done"
        /\ outcome' = Raise("WebDriverException", <<"navigation">>)
  /\ UNCHANGED <<config, pc, status, session, context, issued, cmd, args,
                 url, saved, resp, mark, locals>>

\* with self.driver.context(self.driver.CONTEXT_CHROME): on entry
EnterChrome ==
  /\ phase = "enter"
  /\ saved' = context
  /\ context' = "chrome"
  /\ phase' = "exec"
  /\ UNCHANGED <<config, pc, status, session, page, navlog, issued, cmd,
                 args, url, resp, outcome, mark, locals>>

\* Faulty variant: a command that did not succeed is sent a second time.
IssueAgainOnFailure(log, entry, r) ==
  IF r # ScriptFailed /\ r.t = "dict" /\ DictGet(r, "name") = Success
  THEN Append(log, entry)
  ELSE Append(Append(log, entry), entry)
\* One execute_async_script per call, whatever comes back.
Issue(log, entry, r) == Append(log, entry)

\* response = self.driver.execute_async_script(self.runner_js, command, *args)
ExecuteScript ==
  /\ phase = "exec"
  /\ \E r \in Responses(cmd) \cup {ScriptFailed} :
       /\ resp' = r
       /\ issued' = Issue(issued,
                          [cmd |-> cmd, args |-> args,
                           context |-> context, page |-> page], r)
  /\ phase' = "exit"
  /\ UNCHANGED <<config, pc, status, session, context, page, navlog, cmd,
                 args, url, saved, outcome, mark, locals>>

\* Faulty variant: the context is switched back only when the script returned.
ExitChromeOnSuccessOnly ==
  /\ phase = "exit"
  /\ IF resp = ScriptFailed
     THEN /\ phase' = "done"
          /\ outcome' = Raise("WebDriverException", <<"script">>)
          /\ UNCHANGED context
     ELSE /\ phase' = "unwrap"
          /\ context' = saved
          /\ UNCHANGED outcome
  /\ UNCHANGED <<config, pc, status, session, page, navlog, issued, cmd,
                 args, url, saved, resp, mark, locals>>
\* Leaving the with-block, normally or by the exception of the script.
ExitChrome ==
  /\ phase = "exit"
  /\ context' = saved
  /\ IF resp = ScriptFailed
     THEN /\ phase' = "done"
          /\ outcome' = Raise("WebDriverException", <<"script">>)
     ELSE /\ phase' = "unwrap"
          /\ UNCHANGED outcome
  /\ UNCHANGED <<config, pc, status, session, page, navlog, issued, cmd,
                 args, url, saved, resp, mark, locals>>

\* The rest of _run_page_extractor: a value or a raised error.
UnwrapResponse ==
  /\ phase = "unwrap"
  /\ outcome' = Unwrap(cmd, resp)
  /\ phase' = "done"
  /\ UNCHANGED <<config, pc, status, session, browser, cmd, args, url,
                 saved, resp, mark, locals>>

\* self.driver.quit()
quit == driver' = "closed"

\* ------------------------------------------- a caller of the library
Urls == {"https://a.example/"}
CallerOptions == {NoneV, DictV([sufficientLength |-> Text])}
CallerHandles == {StrV(h) : h \in Handles}

CallerMay ==
  /\ prog = "caller"
  /\ pc = "ready"
  /\ phase = "idle"
  /\ calls < MaxCalls
  /\ calls' = calls + 1
  /\ UNCHANGED <<config, pc, status, session, browser, page_text, handle,
                 inputs>>

CallGetPageText ==
  /\ CallerMay
  /\ \E u \in Urls, o \in CallerOptions : get_page_text(u, o)
CallGetReaderModeContent ==
  /\ CallerMay
  /\ \E u \in Urls, force \in BOOLEAN : get_reader_mode_content(u, force)
CallGetPageInfo ==
  /\ CallerMay
  /\ \E u \in Urls, o \in CallerOptions : get_page_info(u, o)
CallGetSelectionText ==
  /\ CallerMay
  /\ \E u \in Urls : get_selection_text(u)
CallGetHeadlessPageText ==
  /\ CallerMay
  /\ \E u \in Urls, o \in CallerOptions : get_headless_page_text(u, o)
CallCreateMlEngine ==
  /\ CallerMay
  /\ create_ml_engine(DictV([taskName |-> StrV(<<"summarization">>)]))
CallRunMlEngine ==
  /\ CallerMay
  /\ \E h \in CallerHandles, o \in {NoneV, DictV([max_new_tokens |-> Text])} :
       run_ml_engine(h, ListV(<<Text>>), o)
CallDestroyMlEngine ==
  /\ CallerMay
  /\ \E h \in CallerHandles, b \in BOOLEAN : destroy_ml_engine(h, b)
CallCreateTranslationsSession ==
  /\ CallerMay
  /\ module = "package"
  /\ create_translations_session(
       DictV([sourceLanguage |-> StrV(<<"en">>),
              targetLanguage |-> StrV(<<"es">>)]))
CallRunTranslationsSession ==
  /\ CallerMay
  /\ module = "package"
  /\ \E h \in CallerHandles, b \in BOOLEAN :
       run_translations_session(h, Text, b)
CallDestroyTranslationsSession ==
  /\ CallerMay
  /\ module = "package"
  /\ \E h \in CallerHandles, b \in BOOLEAN :
       destroy_translations_session(h, b)

\* The caller takes the value or the exception of the call.
CallerReturn ==
  /\ prog = "caller"
  /\ phase = "done"
  /\ phase' = "idle"
  /\ resp' = NotRun
  /\ outcome' = NoOutcome
  /\ UNCHANGED <<config, pc, status, session, browser, cmd, args, url,
                 saved, mark, locals>>

CallerQuit ==
  /\ prog = "caller"
  /\ pc = "ready"
  /\ phase = "idle"
  /\ quit
  /\ pc' = "exit"
  /\ UNCHANGED <<config, status, client, options, browser, callvars, locals>>

\* ---------------------------------------------------- the programs
EndCall ==
  /\ phase' = "idle"
  /\ UNCHANGED <<cmd, args, url, saved, resp, outcome, mark>>

Raised == outcome.kind = "raise"

\* o[key], where evaluating o may itself have raised.
SubscriptOf(o, k) == IF o.kind = "raise" THEN o ELSE Subscript(o.value, k)
\* o[0], likewise.
FirstOf(o) == IF o.kind = "raise" THEN o ELSE First(o.value)

\* inference["entries"][0]["summary_text"]
SummaryText(inference) ==
  SubscriptOf(FirstOf(SubscriptOf(inference, "entries")), "summary_text")

\* text[:500]
SliceLimit == 500
Slice(v) ==
  IF v.t = "str"
  THEN Return(StrV(SubSeq(v.s, 1,
                          IF Len(v.s) < SliceLimit THEN Len(v.s)
                          ELSE SliceLimit)))
  ELSE Raise("TypeError", <<"'", TypeName(v), "' is not sliceable">>)

\* result.get("targetText")
TargetText(result) ==
  IF result.t = "dict" THEN Return(DictGet(result, "targetText"))
  ELSE NoGetAttr(result)

ArticleUrl == "https://article.example/"
EngineOptions ==
  DictV([taskName |-> StrV(<<"summarization">>),
         modelId |-> StrV(<<"mozilla/text_summarization">>),
         modelRevision |-> StrV(<<"main">>)])
RunOptions == DictV([max_new_tokens |-> IntV(1000)])
LanguagePair ==
  DictV([sourceLanguage |-> StrV(<<"en">>),
         targetLanguage |-> StrV(<<"es">>)])

At(p, l) == prog = p /\ pc = l
Frame == UNCHANGED <<config, session, browser, inputs, calls>>

\* ---- script.py main
ScriptReader ==
  /\ At("script_main", "ready") /\ phase = "idle"
  /\ get_reader_mode_content(ArticleUrl, FALSE)
  /\ pc' = "reader"
  /\ UNCHANGED <<status, page_text, handle>>
  /\ Frame

ScriptAfterReader ==
  /\ At("script_main", "reader") /\ phase = "done"
  /\ IF Raised
     THEN /\ status' = outcome /\ pc' = "finally" /\ EndCall
          /\ UNCHANGED page_text
     ELSE /\ page_text' = outcome.value
          /\ create_ml_engine(EngineOptions)
          /\ pc' = "create"
          /\ UNCHANGED status
  /\ UNCHANGED handle
  /\ Frame

ScriptAfterCreate ==
  /\ At("script_main", "create") /\ phase = "done"
  /\ LET engine_id == SubscriptOf(outcome, "engineId")
     IN IF engine_id.kind = "raise"
        THEN /\ status' = engine_id /\ pc' = "finally" /\ EndCall
             /\ UNCHANGED handle
        ELSE /\ handle' = engine_id.value
             /\ run_ml_engine(engine_id.value, ListV(<<page_text>>),
                              RunOptions)
             /\ pc' = "run"
             /\ UNCHANGED status
  /\ UNCHANGED page_text
  /\ Frame

ScriptAfterRun ==
  /\ At("script_main", "run") /\ phase = "done"
  /\ LET summarized_text == SummaryText(outcome)
     IN IF summarized_text.kind = "raise"
        THEN /\ status' = summarized_text /\ pc' = "finally" /\ EndCall
        ELSE /\ destroy_ml_engine(handle, TRUE)
             /\ pc' = "destroy"
             /\ UNCHANGED status
  /\ UNCHANGED <<page_text, handle>>
  /\ Frame

ScriptAfterDestroy ==
  /\ At("script_main", "destroy") /\ phase = "done"
  /\ status' = IF Raised THEN outcome ELSE status
  /\ pc' = "finally"
  /\ EndCall
  /\ UNCHANGED <<page_text, handle>>
  /\ Frame

\* finally: firefox_inference.quit()
ScriptFinally ==
  /\ At("script_main", "finally")
  /\ quit
  /\ pc' = "exit"
  /\ UNCHANGED <<config, status, client, options, browser, callvars, locals>>

\* ---- examples/summarize_article.py and examples/translate_article.py
\* The two share the lines that fetch the text of the page.
Article == {"summarize_article", "translate_article"}

ArticleCreate ==
  IF prog = "summarize_article" THEN create_ml_engine(EngineOptions)
  ELSE create_translations_session(LanguagePair)

ArticleReader ==
  /\ prog \in Article /\ pc = "ready" /\ phase = "idle"
  /\ get_reader_mode_content(ArticleUrl, FALSE)
  /\ pc' = "reader"
  /\ UNCHANGED <<status, page_text, handle>>
  /\ Frame

ArticleAfterReader ==
  /\ prog \in Article /\ pc = "reader" /\ phase = "done"
  /\ IF Raised
     THEN /\ status' = outcome /\ pc' = "finally" /\ EndCall
          /\ UNCHANGED page_text
     ELSE /\ page_text' = outcome.value
          /\ UNCHANGED status
          /\ IF ~Truthy(outcome.value)
             THEN get_page_text(ArticleUrl, NoneV) /\ pc' = "page_text"
             ELSE ArticleCreate /\ pc' = "create"
  /\ UNCHANGED handle
  /\ Frame

ArticleAfterPageText ==
  /\ prog \in Article /\ pc = "page_text" /\ phase = "done"
  /\ IF Raised
     THEN /\ status' = outcome /\ pc' = "finally" /\ EndCall
          /\ UNCHANGED page_text
     ELSE /\ page_text' = outcome.value
          /\ IF ~Truthy(outcome.value)
             THEN /\ status' = Raise("RuntimeError",
                                     <<"Unable to find page text for that url">>)
                  /\ pc' = "finally"
                  /\ EndCall
             ELSE /\ ArticleCreate /\ pc' = "create"
                  /\ UNCHANGED status
  /\ UNCHANGED handle
  /\ Frame

SummarizeAfterCreate ==
  /\ At("summarize_article", "create") /\ phase = "done"
  /\ LET engine_id == SubscriptOf(outcome, "engineId")
     IN IF engine_id.kind = "raise"
        THEN /\ status' = engine_id /\ pc' = "finally" /\ EndCall
             /\ UNCHANGED handle
        ELSE /\ handle' = engine_id.value
             /\ run_ml_engine(engine_id.value, ListV(<<page_text>>),
                              RunOptions)
             /\ pc' = "run"
             /\ UNCHANGED status
  /\ UNCHANGED page_text
  /\ Frame

\* try: run, print  finally: firefox.destroy_ml_engine(engine_id)
SummarizeAfterRun ==
  /\ At("summarize_article", "run") /\ phase = "done"
  /\ LET printed == SummaryText(outcome)
     IN status' = IF printed.kind = "raise" THEN printed ELSE status
  /\ destroy_ml_engine(handle, TRUE)
  /\ pc' = "destroy"
  /\ UNCHANGED <<page_text, handle>>
  /\ Frame

TranslateAfterCreate ==
  /\ At("translate_article", "create") /\ phase = "done"
  /\ LET session_id == SubscriptOf(outcome, "sessionId")
         excerpt == Slice(page_text)
     IN IF session_id.kind = "raise"
        THEN /\ status' = session_id /\ pc' = "finally" /\ EndCall
             /\ UNCHANGED handle
        ELSE /\ handle' = session_id.value
             /\ IF excerpt.kind = "raise"
                THEN /\ status' = excerpt
                     /\ destroy_translations_session(session_id.value, TRUE)
                     /\ pc' = "destroy"
                ELSE /\ run_translations_session(session_id.value,
                                                 excerpt.value, FALSE)
                     /\ pc' = "run"
                     /\ UNCHANGED status
  /\ UNCHANGED page_text
  /\ Frame

\* try: run, print  finally: firefox.destroy_translations_session(session_id)
TranslateAfterRun ==
  /\ At("translate_article", "run") /\ phase = "done"
  /\ LET printed == SubscriptOf(outcome, "targetText")
     IN status' = IF printed.kind = "raise" THEN printed ELSE status
  /\ destroy_translations_session(handle, TRUE)
  /\ pc' = "destroy"
  /\ UNCHANGED <<page_text, handle>>
  /\ Frame

\* An exception of the destroy replaces the one being propagated.
ArticleAfterDestroy ==
  /\ prog \in Article /\ pc = "destroy" /\ phase = "done"
  /\ status' = IF Raised THEN outcome ELSE status
  /\ pc' = "finally"
  /\ EndCall
  /\ UNCHANGED <<page_text, handle>>
  /\ Frame

\* finally: firefox.quit()
ArticleFinally ==
  /\ prog \in Article /\ pc = "finally"
  /\ quit
  /\ pc' = "exit"
  /\ UNCHANGED <<config, status, client, options, browser, callvars, locals>>

\* ---- examples/interactive_translator.py
Lines == {"", "exit", "quit", "hello"}
EndOfFile == "EOF"

InteractiveCreate ==
  /\ At("interactive_translator", "ready") /\ phase = "idle"
  /\ handle' = NoneV
  /\ create_translations_session(LanguagePair)
  /\ pc' = "create"
  /\ UNCHANGED <<status, page_text>>
  /\ Frame

InteractiveAfterCreate ==
  /\ At("interactive_translator", "create") /\ phase = "done"
  /\ LET session_id == SubscriptOf(outcome, "sessionId")
     IN IF session_id.kind = "raise"
        THEN /\ status' = session_id /\ pc' = "finally"
             /\ UNCHANGED handle
        ELSE /\ handle' = session_id.value /\ pc' = "input"
             /\ UNCHANGED status
  /\ EndCall
  /\ UNCHANGED page_text
  /\ Frame

\* raw = input("> "), and the tests that end the loop
InteractiveInput ==
  /\ At("interactive_translator", "input") /\ phase = "idle"
  /\ \E raw \in Lines \cup {EndOfFile} :
       IF raw = EndOfFile \/ raw = "" \/ raw \in {"exit", "quit"}
       THEN /\ pc' = "finally"
            /\ UNCHANGED <<inputs, callvars>>
       ELSE /\ inputs < MaxInputs
            /\ inputs' = inputs + 1
            /\ run_translations_session(handle, StrV(<<raw>>), FALSE)
            /\ pc' = "run"
  /\ UNCHANGED <<config, status, session, browser, page_text, handle, calls>>

\* except Exception: print, continue; otherwise result.get("targetText")
InteractiveAfterRun ==
  /\ At("interactive_translator", "run") /\ phase = "done"
  /\ IF Raised
     THEN pc' = "input" /\ UNCHANGED status
     ELSE LET translated == TargetText(outcome.value)
          IN IF translated.kind = "raise"
             THEN status' = translated /\ pc' = "finally"
             ELSE pc' = "input" /\ UNCHANGED status
  /\ EndCall
  /\ UNCHANGED <<page_text, handle>>
  /\ Frame

\* finally: if session_id: destroy_translations_session(session_id)
\*          firefox.quit()
InteractiveFinally ==
  /\ At("interactive_translator", "finally") /\ phase = "idle"
  /\ IF Truthy(handle)
     THEN /\ destroy_translations_session(handle, TRUE)
          /\ pc' = "destroy"
          /\ UNCHANGED driver
     ELSE /\ quit
          /\ pc' = "exit"
          /\ UNCHANGED callvars
  /\ UNCHANGED <<config, status, client, options, browser, locals>>

InteractiveAfterDestroy ==
  /\ At("interactive_translator", "destroy") /\ phase = "done"
  /\ IF Raised
     THEN /\ status' = outcome
          /\ UNCHANGED driver
     ELSE /\ quit
          /\ UNCHANGED status
  /\ pc' = "exit"
  /\ EndCall
  /\ UNCHANGED <<config, client, options, browser, locals>>

Library ==
  \/ Construct \/ Navigate \/ EnterChrome \/ ExecuteScript
  \/ ExitChrome \/ UnwrapResponse

Caller ==
  \/ CallGetPageText \/ CallGetReaderModeContent \/ CallGetPageInfo
  \/ CallGetSelectionText \/ CallGetHeadlessPageText
  \/ CallCreateMlEngine \/ CallRunMlEngine \/ CallDestroyMlEngine
  \/ CallCreateTranslationsSession \/ CallRunTranslationsSession
  \/ CallDestroyTranslationsSession \/ CallerReturn \/ CallerQuit

ScriptMain ==
  \/ ScriptReader \/ ScriptAfterReader \/ ScriptAfterCreate
  \/ ScriptAfterRun \/ ScriptAfterDestroy \/ ScriptFinally

ArticleMain ==
  \/ ArticleReader \/ ArticleAfterReader \/ ArticleAfterPageText
  \/ SummarizeAfterCreate \/ SummarizeAfterRun
  \/ TranslateAfterCreate \/ TranslateAfterRun
  \/ ArticleAfterDestroy \/ ArticleFinally

InteractiveMain ==
  \/ InteractiveCreate \/ InteractiveAfterCreate \/ InteractiveInput
  \/ InteractiveAfterRun \/ InteractiveFinally \/ InteractiveAfterDestroy

Next == Library \/ Caller \/ ScriptMain \/ ArticleMain \/ InteractiveMain

Spec == Init /\ [][Next]_vars

\* ------------------------------------------------------ properties
\* r is a mapping whose name field is tag.
IsEnvelope(r, tag) ==
  r.t = "dict" /\ "name" \in DOMAIN r.d /\ r.d["name"] = tag

\* The message the remote side embedded in an error envelope.
HasRemoteMessage(r) ==
  /\ IsEnvelope(r, Error)
  /\ "error" \in DOMAIN r.d
  /\ \/ r.d["error"].t = "str"
     \/ r.d["error"].t = "dict" /\ "message" \in DOMAIN r.d["error"].d
RemoteMessage(r) ==
  IF r.d["error"].t = "str" THEN r.d["error"].s
  ELSE r.d["error"].d["message"].s

Destroys == {"destroy_ml_engine", "destroy_translations_session"}

\* C1: when a call ends on an error envelope whose error is a string or a
\* map with a message, the call raised and the text of the error contains
\* the remote message.
C1_ErrorMessagePreserved ==
  (phase = "done" /\ HasRemoteMessage(resp)) =>
    /\ outcome.kind = "raise"
    /\ Contains(outcome.text, RemoteMessage(resp))

\* C2: when a call ends on a success envelope, it returned the result field
\* of the envelope, null included, and raised nothing.
C2_SuccessReturnsResult ==
  (phase = "done" /\ IsEnvelope(resp, Success) /\ "result" \in DOMAIN resp.d)
    => outcome = Return(resp.d["result"])

C2_Witness ==
  /\ phase = "done"
  /\ cmd = "get_reader_mode_content"
  /\ IsEnvelope(resp, Success)
  /\ "result" \in DOMAIN resp.d
  /\ resp.d["result"] = NoneV
  /\ outcome.kind = "return"

\* The response is null, or a mapping tagged neither success nor error.
Unrecognised(r) ==
  \/ r = NoneV
  \/ r.t = "dict" /\ DictGet(r, "name") \notin {Success, Error}

\* C3: when a call ends on a null response or on an envelope tagged neither
\* success nor error, it raised a RuntimeError that names the command; it
\* returned nothing.
C3_UnrecognisedRaises ==
  (phase = "done" /\ Unrecognised(resp)) =>
    /\ outcome.kind = "raise"
    /\ outcome.etype = "RuntimeError"
    /\ Contains(outcome.text, <<cmd>>)

C3_Witness ==
  /\ phase = "done"
  /\ resp = NoneV
  /\ outcome.kind = "raise"
  /\ cmd \in Commands

\* C4: with a binary path that is given and does not exist, the browser is
\* never launched, no client exists, nothing is navigated or issued, and
\* the constructor ends in its startup error.
C4_MissingBinaryFailsFirst ==
  (Given(firefox_bin) /\ ~firefox_bin.exists) =>
    /\ driver = "none"
    /\ ~client
    /\ options = NoOptions
    /\ navlog = <<>>
    /\ issued = <<>>
    /\ pc \in {"start", "exit"}
    /\ pc = "exit" =>
         /\ status.kind = "raise"
         /\ status.etype \in {"FileNotFoundError", "AssertionError"}

C4_Witness ==
  /\ Given(firefox_bin)
  /\ ~firefox_bin.exists
  /\ pc = "exit"
  /\ status.kind = "raise"

\* C5: when an example program has constructed its client and main has
\* exited, the browser has been quit.
C5_QuitOnEveryExit ==
  (prog \in Examples /\ client /\ pc = "exit") => driver = "closed"

\* C6: when a main exits holding a handle a create command returned, a
\* destroy command with that handle has been issued.
C6_DestroyBeforeExit ==
  (prog \in Mains /\ pc = "exit" /\ handle # NoneV) =>
    \E i \in DOMAIN issued :
      /\ issued[i].cmd \in Destroys
      /\ issued[i].args[1] = handle

RequiredDefaults ==
  ("browser.ml.enable" :> BoolV(TRUE))
  @@ ("browser.ml.logLevel" :> StrV(<<"All">>))
  @@ ("browser.translations.enable" :> BoolV(TRUE))
  @@ ("browser.translations.logLevel" :> StrV(<<"All">>))
  @@ ("browser.translations.automaticallyPopup" :> BoolV(FALSE))
MlOnly == {"browser.ml.enable", "browser.ml.logLevel"}

CallerFlags == IF ml_prefs.t = "dict" THEN ml_prefs.d ELSE <<>>

\* The session has the caller's flags, and the defaults named in keys
\* where the caller named none.
MergedOver(keys) ==
  /\ \A k \in DOMAIN CallerFlags :
       k \in DOMAIN options.prefs /\ options.prefs[k] = CallerFlags[k]
  /\ \A k \in keys \ DOMAIN CallerFlags :
       k \in DOMAIN options.prefs /\ options.prefs[k] = RequiredDefaults[k]

\* C7 as stated: every started session has the five required defaults
\* merged with the caller's flags.
C7_FiveDefaultsMerged ==
  driver # "none" => MergedOver(DOMAIN RequiredDefaults)

\* C7 as amended: a session started by the firefox_inference package has the
\* five required defaults merged with the caller's flags; a session started
\* by script.py has only the ML enable and ML log level defaults merged with
\* the caller's flags.
C7_DefaultsOfModuleMerged ==
  driver # "none" =>
    /\ module = "package" => MergedOver(DOMAIN RequiredDefaults)
    /\ module = "script" =>
         /\ MergedOver(MlOnly)
         /\ DOMAIN options.prefs = MlOnly \cup DOMAIN CallerFlags

C7_Witness ==
  /\ driver = "open"
  /\ module = "package"
  /\ "browser.translations.enable" \in DOMAIN CallerFlags
  /\ options.prefs["browser.translations.enable"] = BoolV(FALSE)
  /\ options.prefs["browser.ml.enable"] = BoolV(TRUE)

\* C8: a call that failed after its command went out (error envelope,
\* malformed envelope, failed script execution) has issued exactly one
\* command since it began, and that command is its own.
C8_FailedCallIssuedOnce ==
  (phase = "done" /\ outcome.kind = "raise" /\ resp # NotRun) =>
    /\ Len(issued) = mark.issued + 1
    /\ issued[Len(issued)].cmd = cmd
    /\ issued[Len(issued)].args = args

C8_Witness ==
  /\ prog = "script_main"
  /\ pc = "run"
  /\ phase = "done"
  /\ outcome.kind = "raise"
  /\ handle # NoneV
  /\ \A i \in DOMAIN issued : issued[i].cmd \notin Destroys

\* C9: every command was executed in the chrome context, and once the
\* with-block of a call is left the context is the one the call began in.
C9_ChromeOnlyAndRestored ==
  /\ \A i \in DOMAIN issued : issued[i].context = "chrome"
  /\ phase \in {"unwrap", "done", "idle"} => context = mark.context

C9_Witness ==
  /\ phase = "done"
  /\ resp = ScriptFailed
  /\ issued # <<>>
  /\ context = "content"

\* C10: a page-scoped call navigates to its url exactly once, issues its
\* command only on the page so loaded, and issues nothing when the load
\* fails; a process-scoped call navigates nowhere and leaves the page.
C10_NavigateThenCommand ==
  /\ cmd \in PageScoped =>
       /\ phase = "nav" =>
            Len(navlog) = mark.navs /\ Len(issued) = mark.issued
       /\ phase # "nav" =>
            Len(navlog) = mark.navs + 1 /\ navlog[Len(navlog)] = url
       /\ Len(issued) > mark.issued =>
            /\ Len(issued) = mark.issued + 1
            /\ issued[Len(issued)].page = url
       /\ (phase = "done" /\ resp = NotRun) => Len(issued) = mark.issued
       /\ (phase = "done" /\ resp # NotRun) => Len(issued) = mark.issued + 1
  /\ cmd \in ProcessScoped =>
       /\ Len(navlog) = mark.navs
       /\ page = mark.page
       /\ phase \in {"exit", "unwrap", "done"} =>
            Len(issued) = mark.issued + 1

C10_Witness ==
  /\ phase = "done"
  /\ cmd = "get_page_info"
  /\ outcome.kind = "return"
  /\ page = url
  /\ Len(navlog) = mark.navs + 1

====
